---------------------------- MODULE Spec2Model ----------------------------
(***************************************************************************)
(* Model of CreativesService (creative classification, media enrichment,   *)
(* freshness-aware caching and smart refresh).                             *)
(*                                                                         *)
(* Time is an integer clock.  One tick stands for one day, so the 7-day    *)
(* rule of getCreative compares now - lastFetchedAt with SevenDays ticks.  *)
(* Every round trip to the ad platform takes one tick, hence every         *)
(* `new Date()` taken after a gateway call is later than every timestamp   *)
(* taken before that call.                                                 *)
(*                                                                         *)
(* The creative store (CreativesRepository) is not part of the sources:    *)
(* it is modelled from its described contract (point lookup, batch lookup, *)
(* upsert, partial update).  Store reads always answer; store writes may   *)
(* fail.                                                                   *)
(***************************************************************************)
EXTENDS Integers, Sequences, FiniteSets, TLC

VARIABLES
  now,       \* the wall clock (Date.now()), in ticks
  store,     \* creative id -> stored record, or NoRec
  upstream,  \* creative id -> the payload the ad platform currently serves
  th,        \* thread -> local state of the invocation it runs
  ops        \* number of invocations the callers have started

vars == <<now, store, upstream, th, ops>>

----------------------------------------------------------------------------
(* Bounds and program constants *)

MaxTime == 9      \* the clock stops advancing by Tick here
MaxOps == 2       \* invocations the callers start in one behaviour
MaxResp == 2      \* entries of one adimages response
SevenDays == 7    \* daysSinceUpdate < 7
BATCH_SIZE == 2   \* 10 in getCreatives (line 862), scaled down

Null == "null"
NoRec == [absent |-> TRUE]

Ids == {"c1", "c2", "c3"}
EmptyId == ""

----------------------------------------------------------------------------
(* Sequence helpers *)

Range(s) == {s[i] : i \in 1..Len(s)}

RECURSIVE SelectIdx(_, _, _)
\* the elements of s at the positions of keep, in order, from position i on
SelectIdx(s, keep, i) ==
  IF i > Len(s) THEN <<>>
  ELSE (IF i \in keep THEN <<s[i]>> ELSE <<>>) \o SelectIdx(s, keep, i + 1)

Filter(s, keep) == SelectIdx(s, keep, 1)

\* a list that keeps its repetitions
NoDedupe(s) == s

\* Array.from(new Set(s)): first occurrences, in order
Unique(s) == Filter(s, {i \in 1..Len(s) : \A j \in 1..(i - 1) : s[j] # s[i]})

SeqsUpTo(S, n) == UNION {[1..k -> S] : k \in 0..n}

----------------------------------------------------------------------------
(* The ad platform: payloads it serves and URLs it resolves to *)

UrlOf == [h1 |-> "u1", h2 |-> "u2"]
VideoUrlOf == [v1 |-> "vsrc1", v2 |-> "vsrc2"]
PictureOf == [v1 |-> "vpic1", v2 |-> "vpic2"]
IframeOf == [c1 |-> "iframe1", c2 |-> "iframe2", c3 |-> "iframe3"]

Child(h, v) == [image_hash |-> h, video_id |-> v, name |-> "slot"]
\* a null entry of child_attachments
NullSlot == [image_hash |-> Null, video_id |-> Null, name |-> Null]
IsNullSlot(c) == c.name = Null
FeedImage(h, u) == [hash |-> h, url |-> u]

BasePayload ==
  [id |-> Null, name |-> "n", body |-> "b", title |-> "t",
   thumbnail_url |-> "thumb", image_url |-> Null, image_hash |-> Null,
   video_id |-> Null, call_to_action |-> "cta",
   object_story_spec |->
     [link_data |-> [ca_kind |-> "list", child_attachments |-> <<>>],
      video_data |-> [video_id |-> Null],
      photo_data |-> [image_hash |-> Null]],
   asset_feed_spec |->
     [products |-> FALSE, has_images |-> FALSE, images |-> <<>>,
      has_videos |-> FALSE, videos |-> <<>>]]

WithChildren(p, cs) ==
  [p EXCEPT !.object_story_spec.link_data.child_attachments = cs]

PStaticUrl == [BasePayload EXCEPT !.name = "static_url", !.image_url = "img"]
PStaticHash == [BasePayload EXCEPT !.name = "static_hash", !.image_hash = "h1"]
PStaticVideo ==
  [BasePayload EXCEPT !.name = "static_video",
                      !.object_story_spec.video_data.video_id = "v1"]
PStaticMixed ==
  [BasePayload EXCEPT !.name = "static_mixed", !.video_id = "v1",
                      !.image_url = "img", !.image_hash = "h1"]
PCarousel2 ==
  WithChildren([BasePayload EXCEPT !.name = "carousel2"],
               <<Child("h1", Null), Child("h2", Null)>>)
PCarouselVideo ==
  WithChildren([BasePayload EXCEPT !.name = "carousel_video"],
               <<Child("h1", "v1"), Child(Null, Null)>>)
PCarouselBare ==
  WithChildren([BasePayload EXCEPT !.name = "carousel_bare"],
               <<Child(Null, Null), Child(Null, "v1")>>)
PFeed ==
  [BasePayload EXCEPT !.name = "feed",
     !.asset_feed_spec.has_images = TRUE,
     !.asset_feed_spec.images = <<FeedImage("h1", "img"), FeedImage("h2", Null)>>,
     !.asset_feed_spec.has_videos = TRUE,
     !.asset_feed_spec.videos = <<"v1">>]
PFeedVideos ==
  [BasePayload EXCEPT !.name = "feed_videos",
     !.asset_feed_spec.has_videos = TRUE,
     !.asset_feed_spec.videos = <<"v1">>]
PCatalog ==
  [BasePayload EXCEPT !.name = "catalog", !.image_hash = "h1",
     !.asset_feed_spec.products = TRUE]
PCatalogBare ==
  [BasePayload EXCEPT !.name = "catalog_bare",
     !.asset_feed_spec.products = TRUE]
PMalformed ==
  [BasePayload EXCEPT !.name = "malformed",
     !.object_story_spec.link_data.ca_kind = "object"]

AllPayloads ==
  {PStaticUrl, PStaticHash, PStaticVideo, PStaticMixed, PCarousel2,
   PCarouselVideo, PCarouselBare, PFeed, PFeedVideos, PCatalog, PCatalogBare,
   PMalformed}


----------------------------------------------------------------------------
(* Gateway calls.  Every operator below yields the SET of results the call *)
(* can produce, each with the log of the requests it made.  A log entry    *)
(* with k = "resolver_empty" records an entry into the batch resolver with *)
(* no hash (no request is sent); every other entry is one HTTP request.    *)

Call(k, arg, out) == [k |-> k, arg |-> arg, out |-> out]

\* what a thread keeps of a log: the kinds of the calls, in order
Kinds(log) == [i \in 1..Len(log) |-> log[i].k]

NetworkCalls(kinds) == {i \in 1..Len(kinds) : kinds[i] # "resolver_empty"}

Or(a, b) == IF a # Null THEN a ELSE b

fetchImageUrlFromHash(imageHash) ==
  IF imageHash = Null THEN {[url |-> Null, log |-> <<>>]}
  ELSE {[url |-> u,
         log |-> <<Call("adimages_single", <<imageHash>>,
                        IF u = Null THEN "none" ELSE "ok")>>] :
          u \in {Null, UrlOf[imageHash]}}

ImagePair(h) == [url |-> UrlOf[h], hash |-> h]

SingleCalls(hs, keep) ==
  [i \in 1..Len(hs) |->
     Call("adimages_single", <<hs[i]>>, IF i \in keep THEN "ok" ELSE "none")]

\* mutant: the batch response is not filtered by the requested hashes
fetchImageUrlsFromHashesUnfiltered(imageHashes) ==
  IF Len(imageHashes) = 0
  THEN {[res |-> <<>>, log |-> <<Call("resolver_empty", <<>>, "none")>>]}
  ELSE
    {[res |-> [i \in 1..Len(r) |-> ImagePair(r[i])],
      log |-> <<Call("adimages_batch", imageHashes, "ok")>>] :
        r \in SeqsUpTo(DOMAIN UrlOf, MaxResp)}
    \cup
    {[res |-> [i \in 1..Len(Filter(imageHashes, keep)) |->
                 ImagePair(Filter(imageHashes, keep)[i])],
      log |-> <<Call("adimages_batch", imageHashes, "throw")>>
              \o SingleCalls(imageHashes, keep)] :
        keep \in SUBSET (1..Len(imageHashes))}

\* mutant: the per-hash fallback gives up at the first hash without a URL
fetchImageUrlsFromHashesStopAtFailure(imageHashes) ==
  IF Len(imageHashes) = 0
  THEN {[res |-> <<>>, log |-> <<Call("resolver_empty", <<>>, "none")>>]}
  ELSE
    {[res |-> [i \in 1..Len(r) |-> ImagePair(r[i])],
      log |-> <<Call("adimages_batch", imageHashes, "ok")>>] :
        r \in SeqsUpTo(Range(imageHashes), MaxResp)}
    \cup
    {[res |-> [i \in 1..n |-> ImagePair(imageHashes[i])],
      log |-> <<Call("adimages_batch", imageHashes, "throw")>>
              \o [i \in 1..(IF n < Len(imageHashes) THEN n + 1 ELSE n) |->
                    Call("adimages_single", <<imageHashes[i]>>,
                         IF i <= n THEN "ok" ELSE "none")]] :
        n \in 0..Len(imageHashes)}

fetchImageUrlsFromHashes(imageHashes) ==
  IF Len(imageHashes) = 0
  THEN {[res |-> <<>>, log |-> <<Call("resolver_empty", <<>>, "none")>>]}
  ELSE
    \* the batch request answers: any entries, in any order; those of a
    \* requested hash that carry a URL are kept, in response order
    {[res |-> [i \in 1..Len(r) |-> ImagePair(r[i])],
      log |-> <<Call("adimages_batch", imageHashes, "ok")>>] :
        r \in SeqsUpTo(Range(imageHashes), MaxResp)}
    \cup
    \* the batch request throws: one single-hash request per input hash
    {[res |-> [i \in 1..Len(Filter(imageHashes, keep)) |->
                 ImagePair(Filter(imageHashes, keep)[i])],
      log |-> <<Call("adimages_batch", imageHashes, "throw")>>
              \o SingleCalls(imageHashes, keep)] :
        keep \in SUBSET (1..Len(imageHashes))}

VideoOutcomes == {"source_picture", "source", "nosource", "error", "permission"}

\* fetchVideoDetails catches every error and answers null, so the catch
\* block of enrichVideoMedia is never entered
fetchVideoDetails(videoId) ==
  {[source |-> IF o \in {"source_picture", "source"}
               THEN VideoUrlOf[videoId] ELSE Null,
    picture |-> IF o = "source_picture" THEN PictureOf[videoId] ELSE Null,
    log |-> <<Call("video", <<videoId>>, o)>>] : o \in VideoOutcomes}

fetchVideoPreviewIframe(creativeId) ==
  {[body |-> b,
    log |-> <<Call("preview", <<creativeId>>,
                   IF b = Null THEN "none" ELSE "ok")>>] :
      b \in {Null, IframeOf[creativeId]}}

\* mutant: a video without a source gets no preview
enrichVideoMediaNoFallback(videoId, creativeId) ==
  {[videoUrls |-> IF d.source # Null THEN <<d.source>> ELSE <<>>,
    videoIds |-> <<videoId>>,
    previewIframes |-> <<>>,
    thumbnailUrl |-> d.picture,
    log |-> d.log] : d \in fetchVideoDetails(videoId)}

\* mutant: the preview is requested whether or not the video has a source
enrichVideoMediaAlwaysPreview(videoId, creativeId) ==
  {[videoUrls |-> IF d.source # Null THEN <<d.source>> ELSE <<>>,
    videoIds |-> <<videoId>>,
    previewIframes |-> IF p.body # Null THEN <<p.body>> ELSE <<>>,
    thumbnailUrl |-> d.picture,
    log |-> d.log \o p.log] :
      d \in fetchVideoDetails(videoId),
      p \in fetchVideoPreviewIframe(creativeId)}

\* lines 299-357: the source URL, else the preview of the creative
enrichVideoMedia(videoId, creativeId) ==
  UNION {
    IF d.source # Null
    THEN {[videoUrls |-> <<d.source>>, videoIds |-> <<videoId>>,
           previewIframes |-> <<>>, thumbnailUrl |-> d.picture,
           log |-> d.log]}
    ELSE {[videoUrls |-> <<>>, videoIds |-> <<videoId>>,
           previewIframes |-> IF p.body # Null THEN <<p.body>> ELSE <<>>,
           thumbnailUrl |-> Null,
           log |-> d.log \o p.log] : p \in fetchVideoPreviewIframe(creativeId)}
    : d \in fetchVideoDetails(videoId)}

----------------------------------------------------------------------------
(* Creative classifier *)

LinkData(cd) == cd.object_story_spec.link_data

\* mutant: the catalog and asset-feed rules are tried before the carousel
determineCreativeModeFeedFirst(creativeData) ==
  LET linkData == LinkData(creativeData)
      assetFeedSpec == creativeData.asset_feed_spec
      slots == IF linkData.ca_kind = "list"
               THEN Len(linkData.child_attachments) ELSE 0
  IN IF assetFeedSpec.products THEN "DYNAMIC_CATALOG"
     ELSE IF assetFeedSpec.has_images \/ assetFeedSpec.has_videos
          THEN "DYNAMIC_ASSET_FEED"
     ELSE IF slots > 1 THEN "STATIC_CAROUSEL"
     ELSE "STATIC"

determineCreativeMode(creativeData) ==
  LET linkData == LinkData(creativeData)
      assetFeedSpec == creativeData.asset_feed_spec
      \* .length of a value that is no list is undefined, and undefined > 1
      \* is false
      slots == IF linkData.ca_kind = "list"
               THEN Len(linkData.child_attachments) ELSE 0
  IN IF slots > 1 THEN "STATIC_CAROUSEL"
     ELSE IF assetFeedSpec.products THEN "DYNAMIC_CATALOG"
     ELSE IF assetFeedSpec.has_images \/ assetFeedSpec.has_videos
          THEN "DYNAMIC_ASSET_FEED"
     ELSE "STATIC"

TypeError == "TypeError"

\* child_attachments.some(child => child[field]) throws on a value that is
\* no list, and on a null entry met before an entry that has the field;
\* an absent child_attachments is not evaluated
SomeThrows(linkData, field) ==
  LET cs == linkData.child_attachments
  IN \/ linkData.ca_kind = "object"
     \/ /\ linkData.ca_kind = "list"
        /\ \E i \in 1..Len(cs) :
             IsNullSlot(cs[i]) /\ \A j \in 1..(i - 1) : cs[j][field] = Null

\* the || chains of lines 245-257 reach .some only when nothing before it
\* is truthy
MediaTypeThrows(creativeData) ==
  LET assetFeedSpec == creativeData.asset_feed_spec
      linkData == LinkData(creativeData)
  IN \/ /\ creativeData.image_url = Null
        /\ Len(assetFeedSpec.images) = 0
        /\ SomeThrows(linkData, "image_hash")
     \/ /\ creativeData.video_id = Null
        /\ creativeData.object_story_spec.video_data.video_id = Null
        /\ Len(assetFeedSpec.videos) = 0
        /\ SomeThrows(linkData, "video_id")

HasImages(creativeData) ==
  LET assetFeedSpec == creativeData.asset_feed_spec
      children == LinkData(creativeData).child_attachments
  IN \/ creativeData.image_url # Null
     \/ Len(assetFeedSpec.images) > 0
     \/ \E i \in 1..Len(children) : children[i].image_hash # Null

HasVideos(creativeData) ==
  LET assetFeedSpec == creativeData.asset_feed_spec
      children == LinkData(creativeData).child_attachments
  IN \/ creativeData.video_id # Null
     \/ creativeData.object_story_spec.video_data.video_id # Null
     \/ Len(assetFeedSpec.videos) > 0
     \/ \E i \in 1..Len(children) : children[i].video_id # Null

determineMediaType(creativeData, creativeMode) ==
  IF MediaTypeThrows(creativeData) THEN TypeError
  ELSE IF HasImages(creativeData) /\ HasVideos(creativeData) THEN "MIXED"
  ELSE IF HasVideos(creativeData) THEN "VIDEO"
  ELSE "IMAGE"

----------------------------------------------------------------------------
(* Enrichment pipeline.  An enrichment is the media arrays built so far    *)
(* and the log of the gateway calls made for them.                         *)

NoMedia ==
  [imageUrls |-> <<>>, imageHashes |-> <<>>, videoUrls |-> <<>>,
   videoIds |-> <<>>, previewIframes |-> <<>>, log |-> <<>>,
   fallback |-> Null]     \* the hash the post-mode fallback resolved

extractChildAttachments(linkData) ==
  [i \in 1..Len(linkData.child_attachments) |->
     [name |-> linkData.child_attachments[i].name,
      imageHash |-> linkData.child_attachments[i].image_hash,
      videoId |-> linkData.child_attachments[i].video_id]]

AssetFeedIsEmpty(assetFeedSpec) ==
  ~(assetFeedSpec.products \/ assetFeedSpec.has_images
      \/ assetFeedSpec.has_videos)

\* the imageHash field of extractAssetFeedData
extractAssetFeedData(assetFeedSpec) ==
  IF AssetFeedIsEmpty(assetFeedSpec) \/ Len(assetFeedSpec.images) = 0
  THEN Null
  ELSE assetFeedSpec.images[1].hash

\* the URL the last result with this hash carries (new Map(...).get(hash))
UrlByHash(res, h) ==
  IF \E i \in 1..Len(res) : res[i].hash = h THEN UrlOf[h] ELSE Null

enrichCarouselImages(childAttachments) ==
  LET slots == {i \in 1..Len(childAttachments) :
                  childAttachments[i].imageHash # Null}
      carouselHashes ==
        [i \in 1..Len(Filter(childAttachments, slots)) |->
           Filter(childAttachments, slots)[i].imageHash]
  IN IF Len(carouselHashes) = 0
     THEN {[imageUrls |-> <<>>, imageHashes |-> <<>>, log |-> <<>>]}
     ELSE {LET resolved ==
                 {i \in 1..Len(carouselHashes) :
                    UrlByHash(f.res, carouselHashes[i]) # Null}
               kept == Filter(carouselHashes, resolved)
           IN [imageUrls |-> [i \in 1..Len(kept) |-> UrlOf[kept[i]]],
               imageHashes |-> carouselHashes,
               log |-> f.log] :
             f \in fetchImageUrlsFromHashes(carouselHashes)}

enrichDynamicImages(assetFeedSpec) ==
  LET images == assetFeedSpec.images
      withUrl == Filter(images, {i \in 1..Len(images) :
                   images[i].url # Null /\ images[i].hash # Null})
      imagesWithUrls == [i \in 1..Len(withUrl) |->
                           [url |-> withUrl[i].url, hash |-> withUrl[i].hash]]
      hashOnly == Filter(images, {i \in 1..Len(images) :
                    images[i].hash # Null /\ images[i].url = Null})
      hashesNeedingFetch == [i \in 1..Len(hashOnly) |-> hashOnly[i].hash]
      uniqueHashesNeedingFetch == Unique(hashesNeedingFetch)
      fetches == IF Len(uniqueHashesNeedingFetch) > 0
                 THEN fetchImageUrlsFromHashes(uniqueHashesNeedingFetch)
                 ELSE {[res |-> <<>>, log |-> <<>>]}
  IN IF Len(images) = 0
     THEN {[imageUrls |-> <<>>, imageHashes |-> <<>>, log |-> <<>>]}
     ELSE {LET all == imagesWithUrls \o f.res
           IN [imageUrls |-> [i \in 1..Len(all) |-> all[i].url],
               imageHashes |-> [i \in 1..Len(all) |-> all[i].hash],
               log |-> f.log] : f \in fetches}

\* mutant: the first video of the feed is resolved like a STATIC video
EnrichDynamicPerVideo(creativeData) ==
  LET assetFeedSpec == creativeData.asset_feed_spec
      videos == IF assetFeedSpec.has_videos /\ Len(assetFeedSpec.videos) > 0
                THEN enrichVideoMedia(assetFeedSpec.videos[1], creativeData.id)
                ELSE {[videoUrls |-> <<>>, videoIds |-> <<>>,
                       previewIframes |-> <<>>, thumbnailUrl |-> Null,
                       log |-> <<>>]}
      images == IF assetFeedSpec.has_images /\ Len(assetFeedSpec.images) > 0
                THEN enrichDynamicImages(assetFeedSpec)
                ELSE {[imageUrls |-> <<>>, imageHashes |-> <<>>, log |-> <<>>]}
  IN {[NoMedia EXCEPT
         !.videoUrls = v.videoUrls, !.videoIds = v.videoIds,
         !.previewIframes = v.previewIframes,
         !.imageUrls = im.imageUrls,
         !.imageHashes = im.imageHashes,
         !.log = v.log \o im.log] : v \in videos, im \in images}

\* STEP 4 of parseCreativeData for DYNAMIC_ASSET_FEED: one preview request
\* when the feed carries videos, then the feed's images
EnrichDynamic(creativeData) ==
  LET assetFeedSpec == creativeData.asset_feed_spec
      previews == IF assetFeedSpec.has_videos /\ Len(assetFeedSpec.videos) > 0
                  THEN fetchVideoPreviewIframe(creativeData.id)
                  ELSE {[body |-> Null, log |-> <<>>]}
      images == IF assetFeedSpec.has_images /\ Len(assetFeedSpec.images) > 0
                THEN enrichDynamicImages(assetFeedSpec)
                ELSE {[imageUrls |-> <<>>, imageHashes |-> <<>>, log |-> <<>>]}
  IN {[NoMedia EXCEPT
         !.previewIframes = IF p.body # Null THEN <<p.body>> ELSE <<>>,
         !.imageUrls = im.imageUrls,
         !.imageHashes = im.imageHashes,
         !.log = p.log \o im.log] : p \in previews, im \in images}

\* STEP 4 for STATIC: the video, else the direct image URL, else the hash
EnrichStatic(creativeData, videoId, imageUrl, imageHash) ==
  IF videoId # Null
  THEN {[NoMedia EXCEPT !.videoUrls = v.videoUrls, !.videoIds = v.videoIds,
                        !.previewIframes = v.previewIframes, !.log = v.log] :
          v \in enrichVideoMedia(videoId, creativeData.id)}
  ELSE IF imageUrl # Null
  THEN {[NoMedia EXCEPT
           !.imageUrls = <<imageUrl>>,
           !.imageHashes = IF imageHash # Null THEN <<imageHash>> ELSE <<>>]}
  ELSE IF imageHash # Null
  THEN {[NoMedia EXCEPT
           !.imageHashes = <<imageHash>>,
           !.imageUrls = IF r.url # Null THEN <<r.url>> ELSE <<>>,
           !.log = r.log] : r \in fetchImageUrlFromHash(imageHash)}
  ELSE {NoMedia}

EnrichByMode(creativeData, creativeMode, videoId, imageUrl, imageHash) ==
  IF creativeMode = "DYNAMIC_ASSET_FEED" THEN EnrichDynamic(creativeData)
  ELSE IF creativeMode = "STATIC"
  THEN EnrichStatic(creativeData, videoId, imageUrl, imageHash)
  ELSE IF creativeMode = "STATIC_CAROUSEL"
          /\ Len(LinkData(creativeData).child_attachments) > 0
  THEN {[NoMedia EXCEPT !.imageUrls = c.imageUrls,
                        !.imageHashes = c.imageHashes, !.log = c.log] :
          c \in enrichCarouselImages(
                  extractChildAttachments(LinkData(creativeData)))}
  ELSE {NoMedia}

\* the fallback after the mode-specific step (part_006 lines 730-741)
HashFallback(e, imageHash) ==
  IF Len(e.imageUrls) = 0 /\ imageHash # Null
     /\ imageHash \notin Range(e.imageHashes)
  THEN {IF r.url # Null
        THEN [e EXCEPT !.imageUrls = Append(@, r.url),
                       !.imageHashes = Append(@, imageHash),
                       !.log = @ \o r.log, !.fallback = imageHash]
        ELSE [e EXCEPT !.log = @ \o r.log, !.fallback = imageHash] :
          r \in fetchImageUrlFromHash(imageHash)}
  ELSE {e}

\* child_attachments that is no list, or has a null entry, makes .some of
\* determineMediaType or .map of extractChildAttachments throw
ParseThrows(creativeData) ==
  LET linkData == LinkData(creativeData)
  IN \/ linkData.ca_kind = "object"
     \/ \E i \in 1..Len(linkData.child_attachments) :
          IsNullSlot(linkData.child_attachments[i])

\* the records parseCreativeData can return for a payload, each with the
\* log of its gateway calls; lastFetchedAt is the clock at its return
parseCreativeData(creativeData, at) ==
  LET assetFeedSpec == creativeData.asset_feed_spec
      creativeMode == determineCreativeMode(creativeData)
      mediaType == determineMediaType(creativeData, creativeMode)
      videoId == Or(creativeData.object_story_spec.video_data.video_id,
                    creativeData.video_id)
      imageUrl == creativeData.image_url
      imageHash == Or(creativeData.image_hash,
                      Or(creativeData.object_story_spec.photo_data.image_hash,
                         extractAssetFeedData(assetFeedSpec)))
      enriched == UNION {HashFallback(e, imageHash) :
                    e \in EnrichByMode(creativeData, creativeMode, videoId,
                                       imageUrl, imageHash)}
  IN IF ParseThrows(creativeData)
     THEN {[ok |-> FALSE, rec |-> NoRec, log |-> <<>>, fallback |-> Null]}
     ELSE {[ok |-> TRUE,
            rec |-> [creativeId |-> creativeData.id,
                     name |-> creativeData.name,
                     primaryText |-> creativeData.body,
                     headline |-> creativeData.title,
                     body |-> creativeData.body,
                     thumbnailUrl |-> creativeData.thumbnail_url,
                     childAttachments |->
                       extractChildAttachments(LinkData(creativeData)),
                     callToAction |-> creativeData.call_to_action,
                     creativeMode |-> creativeMode,
                     mediaType |-> mediaType,
                     imageHashes |-> e.imageHashes,
                     imageUrls |-> e.imageUrls,
                     videoIds |-> e.videoIds,
                     videoUrls |-> e.videoUrls,
                     previewIframe |-> e.previewIframes,
                     rawData |-> creativeData,
                     lastFetchedAt |-> at],
            log |-> e.log, fallback |-> e.fallback] : e \in enriched}

----------------------------------------------------------------------------
(* Creative store (CreativesRepository) *)

getCreativeById(creativeId) == store[creativeId]

\* findOneAndUpdate({creativeId}, $set: parsed, upsert): the record after it
upsertCreative(old, parsed) ==
  IF old = NoRec THEN parsed
  ELSE [f \in DOMAIN old |-> IF f \in DOMAIN parsed THEN parsed[f] ELSE old[f]]

\* findOneAndUpdate({creativeId}, $set: updates): the record after it, or
\* NoRec (null) when there is none to update
updateCreative(old, updates) ==
  IF old = NoRec THEN NoRec
  ELSE [f \in DOMAIN old |-> IF f \in DOMAIN updates THEN updates[f] ELSE old[f]]

----------------------------------------------------------------------------
(* Threads.  Callers run the public operations; the workers are the        *)
(* promises of getCreatives and fetchAndSaveCreativesForClient.            *)

Callers == {1, 2}
Worker(k) == 10 + k
\* one worker per promise a batch operation can create: promise k of the
\* operation (position k of the list it fetches) runs in Worker(k)
MaxPromises == Cardinality(Ids)
Workers == {Worker(k) : k \in 1..MaxPromises}
Threads == Callers \cup Workers

NoMap == [id \in Ids |-> NoRec]
NoCount == [id \in Ids |-> 0]

NoTags == [creativeMode |-> Null, mediaType |-> Null]

Idle ==
  [pc |-> "idle", op |-> "none", creativeId |-> EmptyId,
   forceRefresh |-> FALSE,
   cached |-> NoRec,      \* what the cache check of getCreative read
   checkedAt |-> 0,       \* Date.now() of that check
   existing |-> NoRec,    \* what refreshCreativeUrls read
   pending |-> NoRec,     \* parsedCreative, or the updates of a refresh
   ret |-> NoRec,         \* the returned record (NoRec is null)
   log |-> <<>>,          \* kinds of the gateway calls of this invocation
   writes |-> 0,          \* store writes attempted by this invocation
   stored |-> FALSE,      \* the full fetch's upsert succeeded
   updated |-> FALSE,     \* the refresh's partial update succeeded
   fullFetches |-> 0,     \* getCreative(force) calls made by the refresh
   resolvedImages |-> <<>>, \* what the batch resolver answered the refresh
   resolvedVideo |-> NoRec, \* what enrichVideoMedia answered the refresh
   seen |-> NoMap,        \* what getCreatives read from the store
   creativeIds |-> <<>>,  \* input of getCreatives
   toFetch |-> <<>>, batchStart |-> 0,
   cachedMap |-> NoMap,
   fetches |-> NoCount,   \* requests for each creative made by getCreatives
   failedIds |-> {},      \* ids whose fetch or enrichment failed in it
   saved |-> 0, failed |-> 0,  \* counters of fetchAndSaveCreativesForClient
   tags |-> NoTags,       \* what the classifier answered parseCreativeData
   calls |-> <<>>,        \* the gateway calls of that parse, with outcomes
   hashes |-> <<>>,       \* the argument of a call of the batch resolver
   fallback |-> Null]     \* the hash the fallback of that parse resolved

Set(t, r) == th' = [th EXCEPT ![t] = r]

\* mutant: the age is compared in the wrong unit (one day instead of seven)
IsFreshOneDay(lastFetchedAt, at) == at - lastFetchedAt < 1

\* mutant: an age of exactly seven days still counts as fresh
IsFreshInclusive(lastFetchedAt, at) == at - lastFetchedAt <= SevenDays

\* daysSinceUpdate < 7 (lines 799-800, 845-846)
IsFresh(lastFetchedAt, at) == at - lastFetchedAt < SevenDays

CreativeFetches(kinds) ==
  Cardinality({i \in 1..Len(kinds) : kinds[i] = "creative"})

----------------------------------------------------------------------------
(* getCreative *)

StartGetCreative(t, creativeId, forceRefresh) ==
  /\ th[t].pc = "idle"
  /\ ops < MaxOps
  /\ ops' = ops + 1
  /\ Set(t, [Idle EXCEPT
        !.op = "getCreative", !.creativeId = creativeId,
        !.forceRefresh = forceRefresh,
        !.pc = IF creativeId = EmptyId THEN "done"
               ELSE IF forceRefresh THEN "gc_fetch" ELSE "gc_check"])
  /\ UNCHANGED <<now, store, upstream>>

\* await getCreativeById, then the 7-day test (lines 796-805)
CacheHit(cached, at) == cached # NoRec /\ IsFresh(cached.lastFetchedAt, at)

GcCheck(t) ==
  /\ th[t].pc = "gc_check"
  /\ LET cached == getCreativeById(th[t].creativeId)
     IN Set(t, [th[t] EXCEPT
          !.cached = cached, !.checkedAt = now,
          !.ret = IF CacheHit(cached, now) THEN cached ELSE @,
          !.pc = IF CacheHit(cached, now) THEN "done" ELSE "gc_fetch"])
  /\ UNCHANGED <<now, store, upstream, ops>>

\* a media reference of the parsed record was left without a URL
PartialMedia(rec) ==
  \/ Len(rec.imageUrls) < Len(rec.imageHashes)
  \/ rec.videoIds # <<>> /\ rec.videoUrls = <<>>
  \/ /\ rec.creativeMode = "DYNAMIC_ASSET_FEED"
     /\ Len(rec.rawData.asset_feed_spec.videos) > 0
     /\ rec.previewIframe = <<>>

\* mutant: a media reference left without a URL rejects the whole creative
GcFetchAbortOnPartial(t) ==
  /\ th[t].pc = "gc_fetch"
  /\ now' = now + 1
  /\ \/ Set(t, [th[t] EXCEPT
          !.log = Append(@, "creative"),
          !.pc = "gc_catch"])
     \/ \E r \in parseCreativeData(upstream[th[t].creativeId], now + 1) :
          Set(t, [th[t] EXCEPT
            !.log = Append(@, "creative") \o Kinds(r.log),
            !.pending = IF r.ok /\ ~PartialMedia(r.rec) THEN r.rec ELSE NoRec,
            !.pc = IF r.ok /\ ~PartialMedia(r.rec)
                   THEN "gc_upsert" ELSE "gc_catch"])
  /\ UNCHANGED <<store, upstream, ops>>

\* await fetchCreativeFromFacebook, then parseCreativeData (lines 809-810)
GcFetch(t) ==
  /\ th[t].pc = "gc_fetch"
  /\ now' = now + 1
  /\ \/ Set(t, [th[t] EXCEPT
          !.log = Append(@, "creative"),
          !.pc = "gc_catch"])
     \/ \E r \in parseCreativeData(upstream[th[t].creativeId], now + 1) :
          Set(t, [th[t] EXCEPT
            !.log = Append(@, "creative") \o Kinds(r.log),
            !.pending = r.rec,
            !.pc = IF r.ok THEN "gc_upsert" ELSE "gc_catch"])
  /\ UNCHANGED <<store, upstream, ops>>

\* an upsert of the new media appended to the media already stored
GcUpsertAppend(t) ==
  /\ th[t].pc = "gc_upsert"
  /\ LET id == th[t].creativeId
         old == store[id]
         updated == upsertCreative(old,
           IF old = NoRec THEN th[t].pending
           ELSE [th[t].pending EXCEPT
                   !.imageUrls = old.imageUrls \o @,
                   !.videoUrls = old.videoUrls \o @])
     IN \/ /\ store' = [store EXCEPT ![id] = updated]
           /\ Set(t, [th[t] EXCEPT !.writes = @ + 1, !.stored = TRUE,
                                   !.ret = updated, !.pc = "done"])
        \/ /\ Set(t, [th[t] EXCEPT !.writes = @ + 1, !.pc = "gc_catch"])
           /\ UNCHANGED store
  /\ UNCHANGED <<now, upstream, ops>>

\* await upsertCreative (line 813); a failed write lands in the catch block
GcUpsert(t) ==
  /\ th[t].pc = "gc_upsert"
  /\ LET id == th[t].creativeId
         updated == upsertCreative(store[id], th[t].pending)
     IN \/ /\ store' = [store EXCEPT ![id] = updated]
           /\ Set(t, [th[t] EXCEPT !.writes = @ + 1, !.stored = TRUE,
                                   !.ret = updated, !.pc = "done"])
        \/ /\ Set(t, [th[t] EXCEPT !.writes = @ + 1, !.pc = "gc_catch"])
           /\ UNCHANGED store
  /\ UNCHANGED <<now, upstream, ops>>

\* mutant: the catch block gives up with null instead of the stored record
GcCatchNull(t) ==
  /\ th[t].pc = "gc_catch"
  /\ Set(t, [th[t] EXCEPT !.ret = NoRec, !.pc = "done"])
  /\ UNCHANGED <<now, store, upstream, ops>>

\* the catch block: the stored record, stale or not, else null (lines 817-823)
GcCatch(t) ==
  /\ th[t].pc = "gc_catch"
  /\ Set(t, [th[t] EXCEPT !.ret = getCreativeById(th[t].creativeId),
                          !.pc = "done"])
  /\ UNCHANGED <<now, store, upstream, ops>>

\* the caller takes the result
Return(t) ==
  /\ t \in Callers
  /\ th[t].pc = "done"
  /\ Set(t, Idle)
  /\ UNCHANGED <<now, store, upstream, ops>>

\* time passes between invocations (during one, every gateway call takes
\* a tick)
Tick(d) ==
  /\ \A t \in Threads : th[t].pc = "idle"
  /\ now + d <= MaxTime
  /\ now' = now + d
  /\ UNCHANGED <<store, upstream, th, ops>>

----------------------------------------------------------------------------
(* refreshCreativeUrls *)

StartRefresh(t, creativeId) ==
  /\ th[t].pc = "idle"
  /\ ops < MaxOps
  /\ ops' = ops + 1
  /\ Set(t, [Idle EXCEPT !.op = "refreshCreativeUrls",
                         !.creativeId = creativeId, !.pc = "rf_read"])
  /\ UNCHANGED <<now, store, upstream>>

\* return this.getCreative(creativeId, adAccountId, accessToken, true)
FullFetch(r) ==
  [r EXCEPT !.forceRefresh = TRUE, !.fullFetches = @ + 1, !.pending = NoRec,
            !.pc = "gc_fetch"]

\* the video branch up to its first await (lines 966-974)
VideoStrategy(existing) ==
  IF existing.mediaType \in {"VIDEO", "MIXED"}
  THEN (IF Len(existing.videoIds) > 0 THEN "rf_video" ELSE "full")
  ELSE "full"

\* mutant: the hash branches do not test for stored hashes
RefreshStrategyNoGuard(existing) ==
  IF existing = NoRec THEN "full"
  ELSE IF existing.creativeMode \in
            {"DYNAMIC_ASSET_FEED", "DYNAMIC_CATALOG", "STATIC_CAROUSEL"}
  THEN "rf_images"
  ELSE VideoStrategy(existing)

\* the branch refreshCreativeUrls takes on the stored record, up to its
\* first await (lines 897-974)
RefreshStrategy(existing) ==
  IF existing = NoRec THEN "full"
  ELSE IF existing.creativeMode \in {"DYNAMIC_ASSET_FEED", "DYNAMIC_CATALOG"}
  THEN (IF Len(existing.imageHashes) > 0 THEN "rf_images" ELSE "full")
  ELSE IF existing.creativeMode = "STATIC_CAROUSEL"
  THEN (IF Len(existing.imageHashes) = 0 THEN "full" ELSE "rf_images")
  ELSE VideoStrategy(existing)

\* mutant: a branch that has nothing to refresh returns without a full fetch
GotoNoFetch(r, strategy) ==
  IF strategy = "full" THEN [r EXCEPT !.pc = "done"]
  ELSE [r EXCEPT !.pc = strategy]

Goto(r, strategy) ==
  IF strategy = "full" THEN FullFetch(r) ELSE [r EXCEPT !.pc = strategy]

\* await getCreativeById (line 896)
RfRead(t) ==
  /\ th[t].pc = "rf_read"
  /\ LET existing == getCreativeById(th[t].creativeId)
     IN Set(t, Goto([th[t] EXCEPT !.existing = existing],
                    RefreshStrategy(existing)))
  /\ UNCHANGED <<now, store, upstream, ops>>

\* mutant: the refresh replaces the URLs and keeps the stored hashes
ImageUpdatesUrlsOnly(imageUrls, at) ==
  [imageUrls |-> [i \in 1..Len(imageUrls) |-> imageUrls[i].url],
   thumbnailUrl |-> imageUrls[1].url,
   lastFetchedAt |-> at]

\* the updates of the two hash branches (lines 919-924, 952-957)
ImageUpdates(imageUrls, at) ==
  [imageUrls |-> [i \in 1..Len(imageUrls) |-> imageUrls[i].url],
   imageHashes |-> [i \in 1..Len(imageUrls) |-> imageUrls[i].hash],
   thumbnailUrl |-> imageUrls[1].url,
   lastFetchedAt |-> at]

\* where a hash branch that resolved nothing goes (lines 930-934, 962-966)
AfterNoImages(existing) ==
  IF existing.creativeMode = "STATIC_CAROUSEL"
  THEN VideoStrategy(existing) ELSE "full"

\* await fetchImageUrlsFromHashes(existing.imageHashes) (lines 916, 949)
RfImages(t) ==
  /\ th[t].pc = "rf_images"
  /\ now' = now + 1
  /\ \E f \in fetchImageUrlsFromHashes(th[t].existing.imageHashes) :
       LET r == [th[t] EXCEPT !.log = @ \o Kinds(f.log),
                              !.resolvedImages = f.res]
       IN IF Len(f.res) > 0
          THEN Set(t, [r EXCEPT !.pending = ImageUpdates(f.res, now + 1),
                                !.pc = "rf_update"])
          ELSE Set(t, Goto(r, AfterNoImages(th[t].existing)))
  /\ UNCHANGED <<store, upstream, ops>>

\* mutant: the video thumbnail is put into imageUrls
VideoUpdatesThumbAsImage(videoEnrichment, existing, at) ==
  [videoUrls |-> videoEnrichment.videoUrls,
   videoIds |-> videoEnrichment.videoIds,
   previewIframe |-> videoEnrichment.previewIframes,
   imageUrls |-> <<Or(videoEnrichment.thumbnailUrl, existing.thumbnailUrl)>>,
   thumbnailUrl |-> Or(videoEnrichment.thumbnailUrl, existing.thumbnailUrl),
   lastFetchedAt |-> at]

\* the updates of the video branch (lines 978-985)
VideoUpdates(videoEnrichment, existing, at) ==
  [videoUrls |-> videoEnrichment.videoUrls,
   videoIds |-> videoEnrichment.videoIds,
   previewIframe |-> videoEnrichment.previewIframes,
   imageUrls |-> existing.imageUrls,
   thumbnailUrl |-> Or(videoEnrichment.thumbnailUrl, existing.thumbnailUrl),
   lastFetchedAt |-> at]

\* await enrichVideoMedia(existing.videoIds[0], creativeId) (line 974)
RfVideo(t) ==
  /\ th[t].pc = "rf_video"
  /\ now' = now + 1
  /\ \E v \in enrichVideoMedia(th[t].existing.videoIds[1], th[t].creativeId) :
       LET r == [th[t] EXCEPT !.log = @ \o Kinds(v.log),
                              !.resolvedVideo = [v EXCEPT !.log = <<>>]]
       IN IF Len(v.videoUrls) > 0 \/ Len(v.previewIframes) > 0
          THEN Set(t, [r EXCEPT
                 !.pending = VideoUpdates(v, th[t].existing, now + 1),
                 !.pc = "rf_update"])
          ELSE Set(t, FullFetch(r))
  /\ UNCHANGED <<store, upstream, ops>>

\* await updateCreative (lines 926, 959, 987); a failed write lands in the
\* catch block, which does the full fetch (lines 997-1001)
RfUpdate(t) ==
  /\ th[t].pc = "rf_update"
  /\ LET id == th[t].creativeId
         updated == updateCreative(store[id], th[t].pending)
     IN \/ /\ store' = [store EXCEPT ![id] = updated]
           /\ Set(t, [th[t] EXCEPT !.writes = @ + 1, !.updated = TRUE,
                                   !.ret = updated, !.pc = "done"])
        \/ /\ Set(t, FullFetch([th[t] EXCEPT !.writes = @ + 1]))
           /\ UNCHANGED store
  /\ UNCHANGED <<now, upstream, ops>>

----------------------------------------------------------------------------
(* getCreatives *)

NonEmptyIds(creativeIds) ==
  Filter(creativeIds, {i \in 1..Len(creativeIds) : creativeIds[i] # EmptyId})

StartGetCreatives(t, creativeIds) ==
  /\ th[t].pc = "idle"
  /\ ops < MaxOps
  /\ ops' = ops + 1
  /\ \A w \in Workers : th[w].pc = "idle"
  /\ Set(t, [Idle EXCEPT !.op = "getCreatives", !.creativeIds = creativeIds,
               !.pc = IF Len(creativeIds) = 0 THEN "done" ELSE "gm_read"])
  /\ UNCHANGED <<now, store, upstream>>

\* a batch that is the whole list: no concurrency ceiling
BatchOfWhole(toFetch, i) == SubSeq(toFetch, i, Len(toFetch))

\* toFetch.slice(i, i + BATCH_SIZE), positions counted from 1
BatchOf(toFetch, i) ==
  SubSeq(toFetch, i, IF i + BATCH_SIZE - 1 < Len(toFetch)
                     THEN i + BATCH_SIZE - 1 ELSE Len(toFetch))

\* the workers of the batch that starts at position i
BatchWorkers(toFetch, i) ==
  {Worker(i + k - 1) : k \in 1..Len(BatchOf(toFetch, i))}

\* a promise whose result Promise.all has handed over
Joined == [Idle EXCEPT !.pc = "joined"]

\* batch.map(async id => this.getCreative(id, ..., true)): every promise of
\* the batch that starts at position i runs up to its first await; the
\* workers of the batch before it are settled
Spawn(ws, toFetch, i) ==
  [w \in Workers |->
     IF w \in BatchWorkers(toFetch, i)
     THEN LET k == CHOOSE k \in 1..Len(toFetch) : w = Worker(k)
          IN [Idle EXCEPT !.op = "getCreative", !.creativeId = toFetch[k],
                          !.forceRefresh = TRUE, !.pc = "gc_fetch"]
     ELSE IF ws[w].pc = "done" THEN Joined ELSE ws[w]]

\* the cached records younger than 7 days (lines 840-849)
FreshMap(uniqueIds, at) ==
  [id \in Ids |->
     IF id \in Range(uniqueIds) /\ store[id] # NoRec
        /\ IsFresh(store[id].lastFetchedAt, at)
     THEN store[id] ELSE NoRec]

\* await getCreativesByIds, the partition, and the start of the first batch
GmRead(t) ==
  /\ th[t].pc = "gm_read"
  /\ LET uniqueIds == Unique(NonEmptyIds(th[t].creativeIds))
         cachedMap == FreshMap(uniqueIds, now)
         toFetch == Filter(uniqueIds, {i \in 1..Len(uniqueIds) :
                                         cachedMap[uniqueIds[i]] = NoRec})
     IN IF Len(toFetch) = 0
        THEN Set(t, [th[t] EXCEPT !.cachedMap = cachedMap, !.seen = store,
                                  !.checkedAt = now, !.pc = "done"])
        ELSE th' = [x \in Threads |->
               IF x = t
               THEN [th[t] EXCEPT !.cachedMap = cachedMap, !.seen = store,
                                  !.checkedAt = now,
                                  !.toFetch = toFetch, !.batchStart = 1,
                                  !.pc = "gm_wait"]
               ELSE IF x \in Workers THEN Spawn(th, toFetch, 1)[x]
               ELSE th[x]]
  /\ UNCHANGED <<now, store, upstream, ops>>

RECURSIVE SumFetches(_)
\* the creative fetches made by the workers ws
SumFetches(ws) ==
  IF ws = {} THEN 0
  ELSE LET w == CHOOSE w \in ws : TRUE
       IN CreativeFetches(th[w].log) + SumFetches(ws \ {w})

\* a rejected promise would abandon the whole batch
CollectedAllOrNothing(cachedMap, busy) ==
  IF \E w \in busy : th[w].ret = NoRec THEN cachedMap
  ELSE [id \in Ids |->
          IF \E w \in busy : th[w].creativeId = id
          THEN th[CHOOSE w \in busy : th[w].creativeId = id].ret
          ELSE cachedMap[id]]

\* the map after Promise.all of a batch: every promise that got a record
\* stored it under its id (lines 866-876)
Collected(cachedMap, busy) ==
  LET got(id) == {w \in busy : th[w].creativeId = id /\ th[w].ret # NoRec}
  IN [id \in Ids |->
        IF got(id) # {} THEN th[CHOOSE w \in got(id) : TRUE].ret
        ELSE cachedMap[id]]

\* Promise.all of the batch settles; then the next batch starts or the map
\* is returned
GmJoin(t) ==
  /\ th[t].pc = "gm_wait"
  /\ LET busy == BatchWorkers(th[t].toFetch, th[t].batchStart)
         next == th[t].batchStart + BATCH_SIZE
         fetches == [id \in Ids |->
                       th[t].fetches[id]
                         + SumFetches({w \in busy : th[w].creativeId = id})]
         failedIds == th[t].failedIds \cup
                     {th[w].creativeId : w \in {x \in busy : th[x].writes = 0}}
         me == [th[t] EXCEPT !.cachedMap = Collected(th[t].cachedMap, busy),
                             !.fetches = fetches, !.failedIds = failedIds]
     IN /\ \A w \in busy : th[w].pc = "done"
        /\ th' = [x \in Threads |->
             IF x = t
             THEN (IF next <= Len(th[t].toFetch)
                   THEN [me EXCEPT !.batchStart = next]
                   ELSE [me EXCEPT !.pc = "done"])
             ELSE IF x \in Workers
             THEN (IF next <= Len(th[t].toFetch)
                   THEN Spawn(th, th[t].toFetch, next)[x] ELSE Idle)
             ELSE th[x]]
  /\ UNCHANGED <<now, store, upstream, ops>>

\* fetchAndSaveCreativesForClient: analytics holds a.creative?.id of every
\* analytics record of the date range, Null where a record names no creative
StartFetchAndSave(t, analytics) ==
  /\ th[t].pc = "idle"
  /\ ops < MaxOps
  /\ ops' = ops + 1
  /\ \A w \in Workers : th[w].pc = "idle"
  /\ Set(t, [Idle EXCEPT !.op = "fetchAndSaveCreativesForClient",
                         !.creativeIds = analytics, !.pc = "fs_read"])
  /\ UNCHANGED <<now, store, upstream>>

\* .filter(id => !!id) of lines 1028-1032
NamedIds(analytics) ==
  Filter(analytics, {i \in 1..Len(analytics) :
                       analytics[i] # Null /\ analytics[i] # EmptyId})

\* await getAnalyticsByDateRange, the distinct ids, and the start of the
\* first batch (lines 1020-1046); toFetch holds the distinct ids
FsRead(t) ==
  /\ th[t].pc = "fs_read"
  /\ LET creativeIds == Unique(NamedIds(th[t].creativeIds))
     IN IF Len(creativeIds) = 0
        THEN Set(t, [th[t] EXCEPT !.pc = "done"])
        ELSE th' = [x \in Threads |->
               IF x = t
               THEN [th[t] EXCEPT !.toFetch = creativeIds, !.batchStart = 1,
                                  !.seen = store, !.checkedAt = now,
                                  !.pc = "fs_wait"]
               ELSE IF x \in Workers THEN Spawn(th, creativeIds, 1)[x]
               ELSE th[x]]
  /\ UNCHANGED <<now, store, upstream, ops>>

\* Promise.all of the batch settles (lines 1047-1058): a promise whose
\* getCreative returned, a record or null, counted saved++; one whose
\* getCreative threw counted failed++
FsJoin(t) ==
  /\ th[t].pc = "fs_wait"
  /\ LET busy == BatchWorkers(th[t].toFetch, th[t].batchStart)
         next == th[t].batchStart + BATCH_SIZE
         returned == {w \in busy : th[w].pc = "done"}
         threw == {w \in busy : th[w].pc = "threw"}
         fetches == [id \in Ids |->
                       th[t].fetches[id]
                         + SumFetches({w \in busy : th[w].creativeId = id})]
         failedIds == th[t].failedIds \cup
                     {th[w].creativeId : w \in {x \in busy : th[x].writes = 0}}
         me == [th[t] EXCEPT !.saved = @ + Cardinality(returned),
                             !.failed = @ + Cardinality(threw),
                             !.fetches = fetches, !.failedIds = failedIds]
     IN /\ busy = returned \cup threw
        /\ th' = [x \in Threads |->
             IF x = t
             THEN (IF next <= Len(th[t].toFetch)
                   THEN [me EXCEPT !.batchStart = next]
                   ELSE [me EXCEPT !.pc = "done"])
             ELSE IF x \in Workers
             THEN (IF next <= Len(th[t].toFetch)
                   THEN Spawn(th, th[t].toFetch, next)[x] ELSE Idle)
             ELSE th[x]]
  /\ UNCHANGED <<now, store, upstream, ops>>

----------------------------------------------------------------------------
(* Specifications *)

InitWith(payloads) ==
  /\ now = 0
  /\ store = [id \in Ids |-> NoRec]
  /\ upstream \in {[id \in Ids |-> [p EXCEPT !.id = id]] : p \in payloads}
  /\ th = [t \in Threads |-> Idle]
  /\ ops = 0

TickSteps == {3, SevenDays}

\* one caller, one creative, every payload shape: getCreative and
\* refreshCreativeUrls one after the other, with time passing in between
Init == InitWith(AllPayloads)

Next ==
  \/ \E id \in {"c1", EmptyId}, force \in BOOLEAN :
       StartGetCreative(1, id, force)
  \/ GcCheck(1)
  \/ GcFetch(1)
  \/ GcUpsert(1)
  \/ GcCatch(1)
  \/ StartRefresh(1, "c1")
  \/ RfRead(1)
  \/ RfImages(1)
  \/ RfVideo(1)
  \/ RfUpdate(1)
  \/ Return(1)
  \/ \E d \in TickSteps : Tick(d)

Spec == Init /\ [][Next]_vars

----------------------------------------------------------------------------
(* Properties of getCreative and refreshCreativeUrls, one caller (Spec) *)

GetDone(t) ==
  /\ th[t].pc = "done"
  /\ th[t].op = "getCreative"
  /\ th[t].creativeId # EmptyId

RefreshDone(t) == th[t].pc = "done" /\ th[t].op = "refreshCreativeUrls"

Age(t) == th[t].checkedAt - th[t].cached.lastFetchedAt

\* a getCreative that was not forced and read a record younger than 7 days
FreshRead(t) ==
  /\ th[t].op = "getCreative"
  /\ th[t].pc \notin {"idle", "gc_check"}
  /\ ~th[t].forceRefresh
  /\ th[t].cached # NoRec
  /\ Age(t) < SevenDays

\* C1: getCreative without forceRefresh on an id whose stored record is
\* younger than 7 days returns that record at once, makes no gateway call
\* and no store write, and the stored record is still the one it read.
C1_CacheHit ==
  \A t \in Callers :
    FreshRead(t) =>
      /\ th[t].pc = "done"
      /\ th[t].ret = th[t].cached
      /\ NetworkCalls(th[t].log) = {}
      /\ th[t].writes = 0
      /\ store[th[t].creativeId] = th[t].cached

C1_Witness ==
  \E t \in Callers : FreshRead(t) /\ th[t].pc = "done" /\ Age(t) = 3

\* the condition under which getCreative is to do the full fetch
MustFetch(t) ==
  \/ th[t].forceRefresh
  \/ th[t].cached = NoRec
  \/ Age(t) >= SevenDays

\* C2: a getCreative (of a non-empty id) fetches the creative exactly when
\* it is forced, or read no record, or read a record of age 7 days or more,
\* and then exactly once; when the fetch and the upsert succeed the stored
\* lastFetchedAt is the time of that fetch and the stored record is returned.
C2_FetchWhenStale ==
  \A t \in Callers :
    GetDone(t) =>
      /\ CreativeFetches(th[t].log) = (IF MustFetch(t) THEN 1 ELSE 0)
      /\ th[t].stored =>
           /\ CreativeFetches(th[t].log) = 1
           /\ store[th[t].creativeId].lastFetchedAt = now
           /\ store[th[t].creativeId].lastFetchedAt > th[t].checkedAt
           /\ th[t].ret = store[th[t].creativeId]

\* a record read at the age of exactly 7 days was fetched again and stored
C2_Witness ==
  \E t \in Callers :
    /\ GetDone(t)
    /\ ~th[t].forceRefresh
    /\ th[t].cached # NoRec
    /\ Age(t) = SevenDays
    /\ th[t].stored

\* the fetch or the enrichment of a getCreative failed: the creative was
\* requested and no store write was attempted
FetchFailed(t) ==
  /\ GetDone(t)
  /\ CreativeFetches(th[t].log) = 1
  /\ th[t].writes = 0

\* C3: when the fetch or the enrichment fails, getCreative returns the
\* stored record of the id, stale or not, and null exactly when none is
\* stored.
C3_FallbackToStored ==
  \A t \in Callers :
    FetchFailed(t) => th[t].ret = store[th[t].creativeId]

\* a failed fetch answered with a stored record that is 7 days old or more
C3_Witness ==
  \E t \in Callers :
    /\ FetchFailed(t)
    /\ th[t].ret # NoRec
    /\ now - th[t].ret.lastFetchedAt >= SevenDays

\* C5: a refreshCreativeUrls ends either with a successful partial update
\* and no full fetch, or with exactly one full fetch (one getCreative with
\* forceRefresh, hence one request for the creative) and no successful
\* partial update; it never makes more than one full fetch.  With no stored
\* record or a stored STATIC image it goes to the full fetch directly.
C5_UpdateOrOneFullFetch ==
  \A t \in Callers :
    /\ th[t].op = "refreshCreativeUrls" =>
         /\ th[t].fullFetches <= 1
         /\ th[t].updated => th[t].fullFetches = 0
    /\ RefreshDone(t) =>
         /\ th[t].updated \/ th[t].fullFetches = 1
         /\ CreativeFetches(th[t].log) = th[t].fullFetches
         /\ (\/ th[t].existing = NoRec
             \/ /\ th[t].existing # NoRec
                /\ th[t].existing.creativeMode = "STATIC"
                /\ th[t].existing.mediaType = "IMAGE")
              => /\ th[t].fullFetches = 1
                 /\ th[t].log[1] = "creative"

\* a branch was tried, resolved nothing, and the full fetch followed
C5_Witness ==
  \E t \in Callers :
    /\ RefreshDone(t)
    /\ th[t].fullFetches = 1
    /\ th[t].writes = 1
    /\ th[t].stored
    /\ th[t].log[1] = "adimages_batch"

NonMediaFields ==
  {"creativeId", "creativeMode", "mediaType", "name", "primaryText",
   "headline", "body", "childAttachments", "callToAction", "rawData",
   "videoIds", "videoUrls", "previewIframe"}

\* the refresh read a carousel or dynamic record with stored hashes and the
\* batch resolver answered with at least one URL
HashRefresh(t) ==
  /\ RefreshDone(t)
  /\ th[t].existing # NoRec
  /\ th[t].existing.creativeMode \in
       {"STATIC_CAROUSEL", "DYNAMIC_ASSET_FEED", "DYNAMIC_CATALOG"}
  /\ Len(th[t].existing.imageHashes) > 0
  /\ Len(th[t].resolvedImages) > 0

\* what C6 promises of such a refresh
HashRefreshEffect(t) ==
  LET rec == store[th[t].creativeId]
      res == th[t].resolvedImages
  IN /\ CreativeFetches(th[t].log) = 0
     /\ rec.imageUrls = [i \in 1..Len(res) |-> res[i].url]
     /\ rec.imageHashes = [i \in 1..Len(res) |-> res[i].hash]
     /\ \A f \in NonMediaFields : rec[f] = th[t].existing[f]

C7_NoMediaFullFetch ==
  \A t \in Callers :
    /\ th[t].op = "refreshCreativeUrls" =>
         \A i \in 1..Len(th[t].log) : th[t].log[i] # "resolver_empty"
    /\ (/\ RefreshDone(t)
        /\ th[t].existing # NoRec
        /\ Len(th[t].existing.imageHashes) = 0
        /\ Len(th[t].existing.videoIds) = 0)
         => /\ th[t].fullFetches = 1
            /\ th[t].log[1] = "creative"

\* a dynamic or carousel record without hashes and video ids was refreshed
C7_Witness ==
  \E t \in Callers :
    /\ RefreshDone(t)
    /\ th[t].existing # NoRec
    /\ th[t].existing.creativeMode # "STATIC"
    /\ Len(th[t].existing.imageHashes) = 0
    /\ Len(th[t].existing.videoIds) = 0
    /\ th[t].fullFetches = 1

\* the refresh took the video branch and the video resolved to a source URL
\* or a preview fragment
VideoRefresh(t) ==
  /\ RefreshDone(t)
  /\ th[t].resolvedVideo # NoRec
  /\ \/ Len(th[t].resolvedVideo.videoUrls) > 0
     \/ Len(th[t].resolvedVideo.previewIframes) > 0

\* what C8 promises of such a refresh
VideoRefreshEffect(t) ==
  LET rec == store[th[t].creativeId]
      v == th[t].resolvedVideo
  IN /\ th[t].existing.mediaType \in {"VIDEO", "MIXED"}
     /\ v.videoIds = <<th[t].existing.videoIds[1]>>
     /\ Cardinality({i \in 1..Len(th[t].log) : th[t].log[i] = "video"}) = 1
     /\ rec.videoUrls = v.videoUrls
     /\ rec.videoIds = v.videoIds
     /\ rec.previewIframe = v.previewIframes
     /\ rec.imageUrls = th[t].existing.imageUrls
     /\ rec.imageHashes = th[t].existing.imageHashes

----------------------------------------------------------------------------
(* Two callers on the same creative (SpecRace) *)

RacePayloads == {PStaticVideo, PCatalog}

\* the service holds no lock: the steps of two invocations on one id
\* interleave freely between their awaits
InitRace == InitWith(RacePayloads)

NextRace ==
  \/ \E t \in Callers, force \in BOOLEAN : StartGetCreative(t, "c1", force)
  \/ \E t \in Callers : GcCheck(t)
  \/ \E t \in Callers : GcFetch(t)
  \/ \E t \in Callers : GcUpsert(t)
  \/ \E t \in Callers : GcCatch(t)
  \/ \E t \in Callers : StartRefresh(t, "c1")
  \/ \E t \in Callers : RfRead(t)
  \/ \E t \in Callers : RfImages(t)
  \/ \E t \in Callers : RfVideo(t)
  \/ \E t \in Callers : RfUpdate(t)
  \/ \E t \in Callers : Return(t)
  \/ \E d \in TickSteps : Tick(d)

SpecRace == InitRace /\ [][NextRace]_vars

\* C4: every successful fetch-and-store of an id - a full fetch upsert or a
\* smart-refresh update - leaves the stored lastFetchedAt strictly greater
\* than it was, whatever the interleaving of the callers.
C4_StrictlyIncreases ==
  [][\A id \in Ids :
       (store[id] # NoRec /\ store'[id] # store[id])
         => store'[id].lastFetchedAt > store[id].lastFetchedAt]_vars

----------------------------------------------------------------------------
(* getCreatives over several creatives (SpecMany) *)

\* the id lists asked of getCreatives: empty, with an empty id, with a
\* repeated id, and with more distinct ids than one batch holds
Requests ==
  {<<>>, <<EmptyId>>, <<"c1">>, <<"c2", "c2">>, <<"c1", EmptyId, "c2">>,
   <<"c3", "c1", "c3", "c2">>}

InitMany == InitWith({PStaticUrl})

NextMany ==
  \/ \E creativeIds \in Requests : StartGetCreatives(1, creativeIds)
  \/ GmRead(1)
  \/ \E w \in Workers : GcFetch(w)
  \/ \E w \in Workers : GcUpsert(w)
  \/ \E w \in Workers : GcCatch(w)
  \/ GmJoin(1)
  \/ Return(1)
  \/ \E d \in TickSteps : Tick(d)

SpecMany == InitMany /\ [][NextMany]_vars


ManyDone(t) == th[t].pc = "done" /\ th[t].op = "getCreatives"

\* the distinct non-empty ids of the request
Requested(t) == Range(th[t].creativeIds) \ {EmptyId}

\* the record getCreatives read for id was younger than 7 days
ReadFresh(t, id) ==
  /\ th[t].seen[id] # NoRec
  /\ th[t].checkedAt - th[t].seen[id].lastFetchedAt < SevenDays

\* the requested ids that were to be fetched and whose fetch did not fail
Fetched(t) ==
  {id \in Requested(t) : ~ReadFresh(t, id) /\ id \notin th[t].failedIds}

\* C9 as stated: an id whose fetch from the platform fails is absent from
\* the map that getCreatives returns.
C9_AsStated ==
  \A t \in Callers :
    ManyDone(t) => \A id \in th[t].failedIds : th[t].cachedMap[id] = NoRec

\* C9 (amended): an id whose fetch fails is absent from the returned map
\* only when no record of it is stored; when a stale record is stored, that
\* record is returned.  The failure keeps no other id from being fetched,
\* once, and from being returned when its fetch and its upsert succeed.
C9_FailureIsolated ==
  \A t \in Callers :
    ManyDone(t) =>
      /\ \A id \in th[t].failedIds : th[t].cachedMap[id] = th[t].seen[id]
      /\ \A id \in Fetched(t) :
           /\ th[t].fetches[id] = 1
           /\ store[id] # th[t].seen[id] =>
                /\ th[t].cachedMap[id] = store[id]
                /\ th[t].cachedMap[id].lastFetchedAt > th[t].checkedAt

\* one id failed and came back with its stale record, another id of the
\* same request was fetched, stored and returned
C9_Witness ==
  \E t \in Callers :
    /\ ManyDone(t)
    /\ \E id \in th[t].failedIds : th[t].cachedMap[id] # NoRec
    /\ \E id \in th[t].failedIds : th[t].cachedMap[id] = NoRec
    /\ \E id \in Fetched(t) :
         /\ th[t].cachedMap[id] # NoRec
         /\ th[t].cachedMap[id].lastFetchedAt > th[t].checkedAt

\* C10: getCreatives returns an id whose stored record is younger than 7
\* days from the store without fetching it, fetches every other distinct
\* non-empty id of the request exactly once, however often the id occurs in
\* the input, fetches nothing else, and returns no key that was not asked.
C10_PartitionFetchOnce ==
  \A t \in Callers :
    ManyDone(t) =>
      \A id \in Ids :
        /\ (id \in Requested(t) /\ ReadFresh(t, id)) =>
             /\ th[t].fetches[id] = 0
             /\ th[t].cachedMap[id] = th[t].seen[id]
        /\ (id \in Requested(t) /\ ~ReadFresh(t, id)) =>
             th[t].fetches[id] = 1
        /\ id \notin Requested(t) =>
             /\ th[t].fetches[id] = 0
             /\ th[t].cachedMap[id] = NoRec

\* a request with a repeated id and an empty id, one id fresh in the store
\* and two to fetch
C10_Witness ==
  \E t \in Callers :
    /\ ManyDone(t)
    /\ th[t].creativeIds = <<"c3", "c1", "c3", "c2">>
    /\ ReadFresh(t, "c1")
    /\ th[t].fetches["c3"] = 1
    /\ th[t].fetches["c2"] = 1


----------------------------------------------------------------------------
(* The bulk save, next to getCreatives (SpecSave) *)

\* the creative ids of the analytics records of a date range: none, one
\* without a creative, a repeated id, and more ids than one batch holds
Analytics ==
  {<<>>, <<Null>>, <<"c1", "c1">>, <<"c2", Null, "c1">>, <<"c3", "c2", "c1">>}

InitSave == InitWith({PStaticUrl})

NextSave ==
  \/ \E analytics \in Analytics : StartFetchAndSave(1, analytics)
  \/ FsRead(1)
  \/ \E w \in Workers : GcFetch(w)
  \/ \E w \in Workers : GcUpsert(w)
  \/ \E w \in Workers : GcCatch(w)
  \/ FsJoin(1)
  \/ StartGetCreatives(1, <<"c1", "c2", "c3">>)
  \/ GmRead(1)
  \/ GmJoin(1)
  \/ Return(1)

SpecSave == InitSave /\ [][NextSave]_vars

\* the promises of a batch operation whose getCreative has not settled
InFlight == {w \in Workers : th[w].pc \in {"gc_fetch", "gc_upsert", "gc_catch"}}

\* the batch (counted from 0) that promise k of a batch operation is in
BatchIndex(k) == (k - 1) \div BATCH_SIZE

\* C11: during a getCreatives or a fetchAndSaveCreativesForClient call at
\* most BATCH_SIZE fetches are in flight, and while a fetch of a batch is in
\* flight every fetch of every earlier batch has settled and was collected.
C11_BoundedBatches ==
  /\ Cardinality(InFlight) <= BATCH_SIZE
  /\ \A k, j \in 1..MaxPromises :
       (Worker(k) \in InFlight /\ BatchIndex(j) < BatchIndex(k))
         => th[Worker(j)].pc = "joined"

\* a fetch of the second batch of a fetchAndSaveCreativesForClient is in
\* flight after a full first batch was collected
C11_Witness ==
  /\ \E k \in 1..MaxPromises : Worker(k) \in InFlight /\ BatchIndex(k) = 1
  /\ \A j \in 1..BATCH_SIZE : th[Worker(j)].pc = "joined"
  /\ \E t \in Callers : th[t].op = "fetchAndSaveCreativesForClient"


SaveDone(t) ==
  th[t].pc = "done" /\ th[t].op = "fetchAndSaveCreativesForClient"

\* the distinct ids whose record the call fetched and stored
SavedIds(t) == {id \in Range(th[t].toFetch) : store[id] # th[t].seen[id]}

\* C12: fetchAndSaveCreativesForClient requests every distinct creative id
\* of the date range once, whatever happens to the others, counts an id in
\* saved when its fetch-and-store succeeded and in failed when its fetch
\* failed, and saved + failed is the number of distinct ids.
C12_CountsEachOutcome ==
  \A t \in Callers :
    SaveDone(t) =>
      /\ \A id \in Range(th[t].toFetch) : th[t].fetches[id] = 1
      /\ th[t].saved = Cardinality(SavedIds(t))
      /\ th[t].failed = Cardinality(th[t].failedIds)
      /\ th[t].saved + th[t].failed = Len(th[t].toFetch)

----------------------------------------------------------------------------
(* Two concurrent forced fetches of one creative (SpecTwin) *)

TwinPayloads == {PStaticUrl, PStaticVideo, PCarousel2, PFeed}

InitTwin == InitWith(TwinPayloads)

NextTwin ==
  \/ \E t \in Callers : StartGetCreative(t, "c1", TRUE)
  \/ \E t \in Callers : GcFetch(t)
  \/ \E t \in Callers : GcUpsert(t)
  \/ \E t \in Callers : GcCatch(t)
  \/ \E t \in Callers : Return(t)

SpecTwin == InitTwin /\ [][NextTwin]_vars

\* a record without its timestamp
Masked(rec) == [rec EXCEPT !.lastFetchedAt = 0]

\* the records, timestamps apart, that one getCreative of id can store
\* while the platform serves upstream[id]
SingleCallRecords(id) ==
  {Masked(r.rec) : r \in {x \in parseCreativeData(upstream[id], 0) : x.ok}}

----------------------------------------------------------------------------
(* Store write errors (Spec) *)

\* a store write of the invocation of t was rejected
WriteFailed(t) ==
  /\ th[t].op \in {"getCreative", "refreshCreativeUrls"}
  /\ th[t].writes > (IF th[t].stored \/ th[t].updated THEN 1 ELSE 0)

\* C14: after a store write of getCreative or refreshCreativeUrls fails, the
\* operation makes no further store write, does not go on to fetch the
\* creative, and does not return normally (the error reaches the caller).
C14_WriteErrorSurfaced ==
  \A t \in Callers :
    WriteFailed(t) =>
      /\ th[t].writes = 1
      /\ th[t].pc \notin {"gc_fetch", "gc_upsert"}
      /\ th[t].pc # "done"


----------------------------------------------------------------------------
(* Partial media failure (Spec) *)

\* a getCreative whose creative request was answered and whose enrichment
\* asked the platform for at least one media item
Enriching(t) ==
  /\ th[t].op = "getCreative"
  /\ CreativeFetches(th[t].log) = 1
  /\ Len(th[t].log) > 1

HasKind(t, k) == \E i \in 1..Len(th[t].log) : th[t].log[i] = k

\* C15: once the creative was fetched, no outcome of the image-hash, video
\* and preview resolutions keeps getCreative from attempting the upsert;
\* when the store accepts it, the record stored and returned is the parsed
\* one; and for an asset feed with videos and unresolved image hashes the
\* preview and the image resolution are both requested whatever either
\* answers.
C15_PartialFailureStillStored ==
  \A t \in Callers :
    Enriching(t) =>
      /\ th[t].pending # NoRec
      /\ th[t].writes = 0 => th[t].pc = "gc_upsert"
      /\ th[t].stored =>
           /\ th[t].pc = "done"
           /\ th[t].ret = th[t].pending
           /\ store[th[t].creativeId] = th[t].pending
      /\ th[t].pending.rawData.name = "feed" =>
           HasKind(t, "preview") /\ HasKind(t, "adimages_batch")

\* a feed creative stored with its hash-only image resolved although its
\* preview request failed
C15_Witness ==
  \E t \in Callers :
    /\ Enriching(t)
    /\ th[t].stored
    /\ PartialMedia(th[t].ret)
    /\ th[t].ret.creativeMode = "DYNAMIC_ASSET_FEED"
    /\ th[t].ret.previewIframe = <<>>
    /\ Len(th[t].ret.imageUrls) = 2


----------------------------------------------------------------------------
(* Preview and video URL of a stored record (Spec) *)

\* the invocation of t wrote the record now stored under its id
Wrote(t) ==
  /\ th[t].pc = "done"
  /\ th[t].stored \/ th[t].updated
  /\ th[t].ret = store[th[t].creativeId]

\* the last video request of the log was followed by a preview request:
\* the video answered without a source
LastVideoFailed(log) ==
  \A i \in 1..Len(log) :
    (log[i] = "video" /\ \A j \in (i + 1)..Len(log) : log[j] # "video")
      => (i < Len(log) /\ log[i + 1] = "preview")

----------------------------------------------------------------------------
(* parseCreativeData on its own: the classifier, then the enrichment       *)
(* (SpecParse)                                                             *)

MaxSlots == 2     \* entries of child_attachments in a generated payload

SlotChoices == {NullSlot, Child("h1", Null), Child(Null, "v1")}

\* link_data: child_attachments a list, a value that is no list, or absent
LinkShapes ==
  {[ca_kind |-> "list", child_attachments |-> cs] :
     cs \in SeqsUpTo(SlotChoices, MaxSlots)}
  \cup {[ca_kind |-> k, child_attachments |-> <<>>] : k \in {"object", "absent"}}

\* asset_feed_spec: with or without products, images and videos absent,
\* an empty list, or a list of one
FeedShapes ==
  {[products |-> p, has_images |-> im[1], images |-> im[2],
    has_videos |-> vd[1], videos |-> vd[2]] :
     p \in BOOLEAN,
     im \in {<<FALSE, <<>>>>, <<TRUE, <<>>>>,
             <<TRUE, <<FeedImage("h1", Null)>>>>},
     vd \in {<<FALSE, <<>>>>, <<TRUE, <<>>>>, <<TRUE, <<"v1">>>>}}

VideoRefs == {<<Null, Null>>, <<"v1", Null>>, <<Null, "v1">>}

ParsePayloads ==
  {[BasePayload EXCEPT
      !.name = "generated",
      !.image_url = iu, !.image_hash = ih,
      !.video_id = vr[1],
      !.object_story_spec.video_data.video_id = vr[2],
      !.object_story_spec.link_data = ld,
      !.asset_feed_spec = fd] :
     iu \in {Null, "img"}, ih \in {Null, "h2"}, vr \in VideoRefs,
     ld \in LinkShapes, fd \in FeedShapes}

Modes == {"STATIC", "STATIC_CAROUSEL", "DYNAMIC_ASSET_FEED", "DYNAMIC_CATALOG"}
MediaTypes == {"IMAGE", "VIDEO", "MIXED"}

\* getCreative hands the fetched payload to parseCreativeData (line 810)
StartParse(t, creativeId) ==
  /\ th[t].pc = "idle"
  /\ ops < MaxOps
  /\ ops' = ops + 1
  /\ Set(t, [Idle EXCEPT !.op = "parseCreativeData",
                         !.creativeId = creativeId, !.pc = "pc_classify"])
  /\ UNCHANGED <<now, store, upstream>>

\* STEP 1 of parseCreativeData (lines 628-629)
Classify(t) ==
  /\ th[t].pc = "pc_classify"
  /\ LET creativeData == upstream[th[t].creativeId]
         creativeMode == determineCreativeMode(creativeData)
         mediaType == determineMediaType(creativeData, creativeMode)
     IN Set(t, [th[t] EXCEPT
          !.tags = [creativeMode |-> creativeMode, mediaType |-> mediaType],
          !.pc = IF mediaType = TypeError THEN "threw" ELSE "pc_enrich"])
  /\ UNCHANGED <<now, store, upstream, ops>>

\* STEPS 2 to 4 and the returned record (lines 633-781)
Enrich(t) ==
  /\ th[t].pc = "pc_enrich"
  /\ now' = now + 1
  /\ \E r \in parseCreativeData(upstream[th[t].creativeId], now + 1) :
       Set(t, [th[t] EXCEPT
         !.pending = r.rec, !.calls = r.log, !.log = Kinds(r.log),
         !.fallback = r.fallback,
         !.pc = IF r.ok THEN "done" ELSE "threw"])
  /\ UNCHANGED <<store, upstream, ops>>

\* the exception leaves parseCreativeData for the catch of its caller
ParseCaught(t) ==
  /\ th[t].pc = "threw"
  /\ Set(t, Idle)
  /\ UNCHANGED <<now, store, upstream, ops>>

InitParse == InitWith(ParsePayloads)

NextParse ==
  \/ StartParse(1, "c1")
  \/ Classify(1)
  \/ Enrich(1)
  \/ ParseCaught(1)
  \/ Return(1)

SpecParse == InitParse /\ [][NextParse]_vars

Parsed(t) == th[t].op = "parseCreativeData" /\ th[t].pc = "done"

\* positions of the video requests of t's parse that were refused for
\* lack of permission
Refused(t) ==
  {i \in 1..Len(th[t].calls) :
     th[t].calls[i].k = "video" /\ th[t].calls[i].out = "permission"}

PermissionDenied(t) ==
  /\ Parsed(t)
  /\ th[t].tags.creativeMode = "STATIC"
  /\ Refused(t) # {}

\* C17 as stated: the preview is always there after a permission error
C17_AsStated ==
  \A t \in Callers :
    PermissionDenied(t) =>
      /\ th[t].pending.videoUrls = <<>>
      /\ th[t].pending.previewIframe # <<>>

\* C17 (amended): for a STATIC payload whose video request is refused for
\* lack of permission, the record has videoIds = [that id] and no video
\* URL, the preview of the creative is requested next, and previewIframe is
\* the fragment that request returned, empty when it returned none.
C17_PermissionFallback ==
  \A t \in Callers :
    PermissionDenied(t) =>
      \A i \in Refused(t) :
        /\ th[t].pending.videoIds = th[t].calls[i].arg
        /\ th[t].pending.videoUrls = <<>>
        /\ i < Len(th[t].calls)
        /\ th[t].calls[i + 1].k = "preview"
        /\ th[t].calls[i + 1].arg = <<th[t].creativeId>>
        /\ th[t].pending.previewIframe =
             (IF th[t].calls[i + 1].out = "ok"
              THEN <<IframeOf[th[t].creativeId]>> ELSE <<>>)

\* a refused video whose preview was obtained
C17_Witness ==
  \E t \in Callers :
    /\ PermissionDenied(t)
    /\ th[t].pending.previewIframe = <<"iframe1">>
    /\ th[t].pending.videoIds = <<"v1">>


\* the classifier answered t's parse
Classified(t) ==
  /\ th[t].op = "parseCreativeData"
  /\ th[t].tags # NoTags

Payload(t) == upstream[th[t].creativeId]

\* entries of the carousel slot list of a payload
Slots(cd) ==
  IF LinkData(cd).ca_kind = "list"
  THEN Len(LinkData(cd).child_attachments) ELSE 0

\* C18: the assembly mode follows the ordered rules, first match winning:
\* more than one carousel slot gives STATIC_CAROUSEL whatever else the
\* payload holds; otherwise products give DYNAMIC_CATALOG; otherwise an
\* asset-feed images or videos list gives DYNAMIC_ASSET_FEED; otherwise
\* STATIC.
C18_OrderedRules ==
  \A t \in Callers :
    Classified(t) =>
      LET cd == Payload(t)
          feed == cd.asset_feed_spec
          mode == th[t].tags.creativeMode
      IN /\ Slots(cd) > 1 => mode = "STATIC_CAROUSEL"
         /\ (Slots(cd) <= 1 /\ feed.products) => mode = "DYNAMIC_CATALOG"
         /\ (Slots(cd) <= 1 /\ ~feed.products
               /\ (feed.has_images \/ feed.has_videos))
              => mode = "DYNAMIC_ASSET_FEED"
         /\ (Slots(cd) <= 1 /\ ~feed.products
               /\ ~feed.has_images /\ ~feed.has_videos)
              => mode = "STATIC"

\* a payload with two carousel slots, products and an asset-feed images
\* list was classified STATIC_CAROUSEL
C18_Witness ==
  \E t \in Callers :
    /\ Classified(t)
    /\ Slots(Payload(t)) = 2
    /\ Payload(t).asset_feed_spec.products
    /\ Payload(t).asset_feed_spec.has_images
    /\ th[t].tags.creativeMode = "STATIC_CAROUSEL"


\* C19: the media type is MIXED exactly when the payload has an
\* image-bearing and a video-bearing reference, VIDEO when it has only a
\* video-bearing one and IMAGE otherwise, whatever assembly mode is passed.
C19_MixedIff ==
  \A t \in Callers :
    Classified(t) =>
      LET cd == Payload(t)
          expected == IF HasImages(cd) /\ HasVideos(cd) THEN "MIXED"
                      ELSE IF HasVideos(cd) THEN "VIDEO"
                      ELSE "IMAGE"
      IN /\ th[t].tags.mediaType = expected
         /\ \A m \in Modes : determineMediaType(cd, m) = expected

\* C20: the classifier answers every payload, well-formed or not, with an
\* assembly mode and a media type.
C20_NeverThrows ==
  \A t \in Callers :
    Classified(t) =>
      /\ th[t].tags.creativeMode \in Modes
      /\ th[t].tags.mediaType \in MediaTypes


----------------------------------------------------------------------------
(* The batch hash resolver on its own (SpecResolve) *)

Hashes == DOMAIN UrlOf

\* the lists of unique hashes
UniqueHashLists == {hs \in SeqsUpTo(Hashes, Cardinality(Hashes)) : Unique(hs) = hs}

StartResolve(t, imageHashes) ==
  /\ th[t].pc = "idle"
  /\ ops < MaxOps
  /\ ops' = ops + 1
  /\ Set(t, [Idle EXCEPT !.op = "fetchImageUrlsFromHashes",
                         !.hashes = imageHashes, !.pc = "rs_call"])
  /\ UNCHANGED <<now, store, upstream>>

\* the whole call: the batch request and, when it throws, the single ones
Resolve(t) ==
  /\ th[t].pc = "rs_call"
  /\ now' = now + 1
  /\ \E f \in fetchImageUrlsFromHashes(th[t].hashes) :
       Set(t, [th[t] EXCEPT !.resolvedImages = f.res, !.calls = f.log,
                            !.log = Kinds(f.log), !.pc = "done"])
  /\ UNCHANGED <<store, upstream, ops>>

InitResolve == InitWith({PStaticUrl})

NextResolve ==
  \/ \E t \in Callers, hs \in UniqueHashLists : StartResolve(t, hs)
  \/ \E t \in Callers : Resolve(t)
  \/ \E t \in Callers : Return(t)

SpecResolve == InitResolve /\ [][NextResolve]_vars

Resolved(t) == th[t].op = "fetchImageUrlsFromHashes" /\ th[t].pc = "done"

\* C21: the results of the batch resolver carry pairwise distinct hashes,
\* each one of the input list, hence at most as many results as hashes.
C21_DistinctRequestedHashes ==
  \A t \in Callers :
    Resolved(t) =>
      LET res == th[t].resolvedImages
      IN /\ \A i \in 1..Len(res) : res[i].hash \in Range(th[t].hashes)
         /\ \A i, j \in 1..Len(res) : i # j => res[i].hash # res[j].hash
         /\ Len(res) <= Len(th[t].hashes)

BatchThrew(t) ==
  /\ Resolved(t)
  /\ Len(th[t].calls) > 0
  /\ th[t].calls[1].k = "adimages_batch"
  /\ th[t].calls[1].out = "throw"

\* C22: when the batch request throws, every input hash is resolved on its
\* own, in input order and whatever the earlier ones answered, and the call
\* returns the pairs of exactly those that answered with a URL, in that
\* order.
C22_PerHashFallback ==
  \A t \in Callers :
    BatchThrew(t) =>
      LET hs == th[t].hashes
          calls == th[t].calls
          ok == {i \in 1..Len(hs) : calls[i + 1].out = "ok"}
          kept == Filter(hs, ok)
      IN /\ Len(calls) = 1 + Len(hs)
         /\ \A i \in 1..Len(hs) :
              /\ calls[i + 1].k = "adimages_single"
              /\ calls[i + 1].arg = <<hs[i]>>
         /\ th[t].resolvedImages = [i \in 1..Len(kept) |-> ImagePair(kept[i])]

\* the first single request failed, the second one was still made and its
\* URL is returned
C22_Witness ==
  \E t \in Callers :
    /\ BatchThrew(t)
    /\ Len(th[t].hashes) = 2
    /\ th[t].calls[2].out = "none"
    /\ th[t].calls[3].out = "ok"
    /\ Len(th[t].resolvedImages) = 1


----------------------------------------------------------------------------
(* Image enrichment of parseCreativeData (SpecImages) *)

ImageSlots == {Child("h1", Null), Child("h2", Null), Child(Null, Null)}

\* asset-feed images: hash only, or already carrying a URL
FeedImages == {FeedImage("h1", Null), FeedImage("h2", Null), FeedImage("h1", "img")}

Carousels ==
  {[BasePayload EXCEPT
      !.name = "carousel", !.image_hash = ih,
      !.object_story_spec.link_data.child_attachments = cs] :
     ih \in {Null, "h1"},
     cs \in {c \in SeqsUpTo(ImageSlots, MaxSlots) : Len(c) > 1}}

Feeds ==
  {[BasePayload EXCEPT
      !.name = "feed", !.image_hash = ih,
      !.asset_feed_spec.has_images = TRUE,
      !.asset_feed_spec.images = im] :
     ih \in {Null, "h1"},
     im \in {f \in SeqsUpTo(FeedImages, MaxSlots) : Len(f) > 0}}

ImagePayloads == Carousels \cup Feeds \cup {PStaticHash, PCatalog, PFeed}

InitImages == InitWith(ImagePayloads)

NextImages ==
  \/ \E id \in {"c1", "c2"} : StartParse(1, id)
  \/ Classify(1)
  \/ Enrich(1)
  \/ Return(1)

SpecImages == InitImages /\ [][NextImages]_vars

BatchCalls(t) ==
  {i \in 1..Len(th[t].calls) : th[t].calls[i].k = "adimages_batch"}

\* C23: every hash list the enrichment passes to the batch resolver is
\* free of duplicates.
C23_BatchListsDuplicateFree ==
  \A t \in Callers :
    Parsed(t) =>
      \A i \in BatchCalls(t) : Unique(th[t].calls[i].arg) = th[t].calls[i].arg

\* C24: after the enrichment of a carousel imageUrls and imageHashes have
\* the same length and imageUrls[i] is the URL of imageHashes[i].
C24_CarouselAligned ==
  \A t \in Callers :
    (Parsed(t) /\ th[t].tags.creativeMode = "STATIC_CAROUSEL") =>
      LET rec == th[t].pending
      IN /\ Len(rec.imageUrls) = Len(rec.imageHashes)
         /\ \A i \in 1..Len(rec.imageHashes) :
              i <= Len(rec.imageUrls) => rec.imageUrls[i] = UrlOf[rec.imageHashes[i]]

\* any two different hashes of out stand in an order they have in feed
InFeedOrder(out, feed) ==
  \A i, j \in 1..Len(out) :
    (i < j /\ out[i] # out[j]) =>
      \E p, q \in 1..Len(feed) :
        p < q /\ feed[p].hash = out[i] /\ feed[q].hash = out[j]

\* C25: the imageHashes of an asset-feed creative list the resolved images
\* in the order the feed lists them.
C25_FeedOrderPreserved ==
  \A t \in Callers :
    (Parsed(t) /\ th[t].tags.creativeMode = "DYNAMIC_ASSET_FEED"
       /\ th[t].fallback = Null) =>
      InFeedOrder(th[t].pending.imageHashes,
                  Payload(t).asset_feed_spec.images)

\* requests of t's parse, before its last one, that submitted hash h
Submitted(t, h) ==
  {i \in 1..(Len(th[t].calls) - 1) :
     /\ th[t].calls[i].k \in {"adimages_batch", "adimages_single"}
     /\ h \in Range(th[t].calls[i].arg)}

\* C26: the fallback resolves the top-level hash only when the
\* mode-specific step produced no URL and did not submit that hash itself.
C26_FallbackNotTwice ==
  \A t \in Callers :
    (Parsed(t) /\ th[t].fallback # Null) =>
      /\ Len(th[t].pending.imageUrls) <= 1
      /\ Submitted(t, th[t].fallback) = {}


----------------------------------------------------------------------------
(* Video resolution and preview (SpecParse, SpecRefresh) *)

\* C27: a preview request follows a video request only when that request
\* was refused for lack of permission or answered without a source; after
\* a video request that failed with a generic error no preview is
\* requested.
C27_PreviewOnlyAfterPermission ==
  \A t \in Callers :
    Parsed(t) =>
      \A i \in 1..Len(th[t].calls) :
        (th[t].calls[i].k = "video" /\ th[t].calls[i].out = "error") =>
          (i = Len(th[t].calls) \/ th[t].calls[i + 1].k # "preview")


Count(log, k) == Cardinality({i \in 1..Len(log) : log[i] = k})

\* a getCreative stored the record of an asset feed that carries videos
StoredFeedWithVideos(t) ==
  /\ th[t].op = "getCreative"
  /\ th[t].pc = "done"
  /\ th[t].stored
  /\ th[t].ret.creativeMode = "DYNAMIC_ASSET_FEED"
  /\ Len(th[t].ret.rawData.asset_feed_spec.videos) > 0

----------------------------------------------------------------------------
(* Stored image hashes under smart refreshes (SpecRefresh) *)

\* payloads whose records a smart refresh handles by a branch of its own:
\* carousel, catalog, asset feed with videos, and video
RefreshPayloads == {PCarousel2, PCatalog, PFeedVideos, PStaticVideo}

InitRefresh == InitWith(RefreshPayloads)

SpecRefresh == InitRefresh /\ [][Next]_vars

\* the step is the partial update of a smart refresh on id
RefreshWrites(id) ==
  /\ \E t \in Callers : th[t].pc = "rf_update" /\ th[t].creativeId = id
  /\ store[id] # NoRec
  /\ store'[id] # store[id]

----------------------------------------------------------------------------
(* A smart refresh and a full fetch while the payload changes (SpecDrift) *)

OldPayload == PCatalog
NewPayload == [PCatalog EXCEPT !.image_hash = "h2"]

\* the platform starts to serve the edited creative
UpstreamChanges ==
  /\ upstream = [id \in Ids |-> [OldPayload EXCEPT !.id = id]]
  /\ upstream' = [id \in Ids |-> [NewPayload EXCEPT !.id = id]]
  /\ UNCHANGED <<now, store, th, ops>>

\* the creative was fetched and stored before, from the payload served then
InitDrift ==
  /\ now = 0
  /\ upstream = [id \in Ids |-> [OldPayload EXCEPT !.id = id]]
  /\ store \in {[id \in Ids |-> IF id = "c1" THEN r.rec ELSE NoRec] :
                  r \in {x \in parseCreativeData([OldPayload EXCEPT !.id = "c1"], 0) :
                           x.rec.imageUrls # <<>>}}
  /\ th = [t \in Threads |-> Idle]
  /\ ops = 0

NextDrift ==
  \/ StartRefresh(1, "c1")
  \/ RfRead(1)
  \/ RfImages(1)
  \/ RfUpdate(1)
  \/ StartGetCreative(2, "c1", TRUE)
  \/ \E t \in Callers : GcFetch(t)
  \/ \E t \in Callers : GcUpsert(t)
  \/ \E t \in Callers : GcCatch(t)
  \/ \E t \in Callers : Return(t)
  \/ UpstreamChanges

SpecDrift == InitDrift /\ [][NextDrift]_vars

\* the image hashes a payload refers to
ReferencedHashes(creativeData) ==
  ({creativeData.image_hash, creativeData.object_story_spec.photo_data.image_hash}
     \cup {LinkData(creativeData).child_attachments[i].image_hash :
             i \in 1..Len(LinkData(creativeData).child_attachments)}
     \cup {creativeData.asset_feed_spec.images[i].hash :
             i \in 1..Len(creativeData.asset_feed_spec.images)})
  \ {Null}

\* C30: whatever the interleaving of a smart refresh and a forced full
\* fetch of one id while the payload changes, the stored imageHashes are
\* hashes of the stored rawData.
C30_HashesOfStoredPayload ==
  \A id \in Ids :
    store[id] # NoRec =>
      Range(store[id].imageHashes) \subseteq ReferencedHashes(store[id].rawData)

=============================================================================
